---- MODULE Spec2Model ----
(***************************************************************************)
(* Model of the people/transactions store (populate.py: schema and         *)
(* inserts) and of the five read-only query operations served over it      *)
(* (test.py).  Text values that the code formats, parses or compares       *)
(* (month strings, date strings) are sequences of one-character strings;   *)
(* a nullable SQL / Python value is <<>> (NULL / None) or <<v>>.           *)
(* Amounts are counted in thousandths of the currency unit.                *)
(* people and txs are the committed tables; work is what the connection    *)
(* of a running populate_dummy_data sees (its uncommitted inserts          *)
(* included), seed that run's local variables.                             *)
(***************************************************************************)
EXTENDS Integers, Sequences, FiniteSets, TLC

VARIABLES tables, people, txs, phase, tie, open, call, ret, seed, work

vars == <<tables, people, txs, phase, tie, open, call, ret, seed, work>>

(* ---------------------------------------------------------------- bounds *)
MaxPeople == 2
MaxTx == 3
MaxOpen == 2

(* ------------------------------------------------------- nullable values *)
Null == <<>>
Some(v) == <<v>>

(* ------------------------------------------------------------------ text *)
DigitChars == <<"0", "1", "2", "3", "4", "5", "6", "7", "8", "9">>

DigitChar(d) == DigitChars[d + 1]

IsDigit(c) == \E d \in 0..9 : DigitChars[d + 1] = c

DigitVal(c) == CHOOSE d \in 0..9 : DigitChars[d + 1] = c

RECURSIVE Digits(_)
\* decimal digits of a natural number, no padding
Digits(n) == IF n < 10 THEN <<DigitChar(n)>>
             ELSE Digits(n \div 10) \o <<DigitChar(n % 10)>>

RECURSIVE ZeroPad(_, _)
\* left-pad a text with "0" up to a minimum width
ZeroPad(s, w) == IF Len(s) >= w THEN s ELSE ZeroPad(<<"0">> \o s, w)

RECURSIVE NumVal(_)
\* value of a text of digits
NumVal(s) == IF s = <<>> THEN 0
             ELSE 10 * NumVal(SubSeq(s, 1, Len(s) - 1)) + DigitVal(s[Len(s)])

\* f"{month}": the month formatted without its minimum width
Fmt02d_NoPad(n) == IF n < 0 THEN <<"-">> \o Digits(0 - n) ELSE Digits(n)

\* f"{month:02d}": sign, then digits, zero-padded to a total width of 2
Fmt02d(n) == IF n < 0 THEN <<"-">> \o ZeroPad(Digits(0 - n), 1)
             ELSE ZeroPad(Digits(n), 2)

(* ----------------------------------------------------------------- dates *)
\* a stored transaction_date: the text the datetime adapter writes,
\* "YYYY-MM-DD HH:MM:SS", kept by its fields; t numbers the time of day
IsLeap(y) == (y % 4 = 0 /\ y % 100 # 0) \/ y % 400 = 0

DaysInMonth(y, m) == IF m = 2 THEN (IF IsLeap(y) THEN 29 ELSE 28)
                     ELSE IF m \in {4, 6, 9, 11} THEN 30 ELSE 31

\* SQLite strftime('%m', ts)
StrftimeMonth(ts) == ZeroPad(Digits(ts.m), 2)

\* SQLite date(ts): the date part, time of day dropped
SqlDate(ts) == ZeroPad(Digits(ts.y), 4) \o <<"-">> \o ZeroPad(Digits(ts.m), 2)
               \o <<"-">> \o ZeroPad(Digits(ts.d), 2)

\* the order of two stored timestamps (text comparison of equal-width fields)
TsLess(a, b) == \/ a.y < b.y
                \/ a.y = b.y /\ a.m < b.m
                \/ a.y = b.y /\ a.m = b.m /\ a.d < b.d
                \/ a.y = b.y /\ a.m = b.m /\ a.d = b.d /\ a.t < b.t

RECURSIVE SplitDash(_)
\* the fields of a text between its "-" characters
SplitDash(s) ==
    IF s = <<>> THEN <<<<>>>>
    ELSE LET rest == SplitDash(Tail(s))
         IN IF Head(s) = "-" THEN <<<<>>>> \o rest
            ELSE <<<<Head(s)>> \o Head(rest)>> \o Tail(rest)

AllDigits(s) == \A i \in 1..Len(s) : IsDigit(s[i])

\* datetime.strptime(date_str, '%Y-%m-%d') succeeds: %Y is four digits,
\* %m is 1[0-2]|0[1-9]|[1-9], %d is 3[01]|[12]\d|0[1-9]|[1-9]| [1-9],
\* nothing may remain, and the fields must name a day of the calendar
StrptimeOk(s) ==
    LET f == SplitDash(s)
    IN /\ Len(f) = 3
       /\ Len(f[1]) = 4 /\ AllDigits(f[1])
       /\ Len(f[2]) \in {1, 2} /\ AllDigits(f[2])
       /\ NumVal(f[2]) \in 1..12
       /\ \/ Len(f[3]) \in {1, 2} /\ AllDigits(f[3])
          \/ Len(f[3]) = 2 /\ f[3][1] = " " /\ IsDigit(f[3][2])
       /\ LET dd == IF f[3][1] = " " THEN Tail(f[3]) ELSE f[3]
          IN /\ NumVal(dd) >= 1
             /\ NumVal(f[1]) >= 1
             /\ NumVal(dd) <= DaysInMonth(NumVal(f[1]), NumVal(f[2]))

(* --------------------------------------------------------------- domains *)
PersonNames == { <<"Ada", "Lovelace">>, <<"Alan", "Turing">> }

\* BINARY collation of the names in use
Collate(s) == CASE s = "Ada" -> 1 [] s = "Alan" -> 2
                [] s = "Lovelace" -> 3 [] s = "Turing" -> 4

Ts(y, m, d, t) == [y |-> y, m |-> m, d |-> d, t |-> t]

Tx(ts, amount, location) ==
    [transaction_date |-> ts, amount |-> amount, location |-> location]

\* the (date, amount, location) triples a writer may insert
TxValues == { Tx(Ts(2023, 3, 5, 1), 10004, Some("London")),
              Tx(Ts(2024, 3, 5, 0), 20003, Some("Paris")),
              Tx(Ts(2024, 3, 5, 0), 10004, Some("London")),
              Tx(Ts(2024, 4, 1, 0), 20003, Null),
              Tx(Ts(2024, 3, 5, 1), 10004, Some("")) }

Months == {-1, 0, 3, 4, 13}

DateStrings == { <<"2", "0", "2", "4", "-", "0", "3", "-", "0", "5">>,
                 <<"2", "0", "2", "3", "-", "0", "3", "-", "0", "5">>,
                 <<"2", "0", "2", "4", "-", "3", "-", "5">>,
                 <<"2", "0", "2", "4", "-", "1", "3", "-", "4", "0">>,
                 <<"2", "0", "2", "3", "-", "0", "2", "-", "2", "9">> }

LocationArgs == {"London", "Paris", ""}

TieModes == {"lo", "hi"}

\* no populate_dummy_data run under way
NoSeed == [pc |-> "idle", num_people |-> 0, people_added |-> 0,
           person_id |-> 0, todo |-> 0]

NoWork == [people |-> <<>>, txs |-> <<>>]

NoCall == [op |-> "none"]
NoRet == [status |-> "none", val |-> <<>>, executed |-> FALSE]

Init == /\ tables = FALSE
        /\ people = <<>>
        /\ txs = <<>>
        /\ phase = "seed"
        /\ tie = "lo"
        /\ open = 0
        /\ call = NoCall
        /\ ret = NoRet
        /\ seed = NoSeed
        /\ work = NoWork

(* ----------------------------------------------------------------- seeding *)
\* setup_database: CREATE TABLE IF NOT EXISTS for both tables, commit
setup_database ==
    /\ phase = "seed"
    /\ tables' = TRUE
    /\ UNCHANGED <<people, txs, phase, tie, open, call, ret, seed, work>>

\* INSERT INTO PeopleInformation: person_id is the next AUTOINCREMENT value,
\* email a fresh unique address (numbered by the row)
InsertPerson(name) ==
    /\ phase = "seed"
    /\ tables
    /\ Len(people) < MaxPeople
    /\ people' = Append(people, [first_name |-> name[1], last_name |-> name[2],
                                 email |-> Len(people) + 1])
    /\ UNCHANGED <<tables, txs, phase, tie, open, call, ret, seed, work>>

\* INSERT INTO TransactionData: the FOREIGN KEY clause is not enforced
\* (no PRAGMA foreign_keys), so person_id is any integer
InsertTransaction(pid, v) ==
    /\ phase = "seed"
    /\ tables
    /\ Len(txs) < MaxTx
    /\ txs' = Append(txs, [person_id |-> pid,
                           transaction_date |-> v.transaction_date,
                           amount |-> v.amount,
                           location |-> v.location])
    /\ UNCHANGED <<tables, people, phase, tie, open, call, ret, seed, work>>

(* --------------------------------------------------------- the SQL engine *)
\* the rows of TransactionData in the order the engine visits them; SQL
\* leaves the order of rows that tie under ORDER BY open, the engine in use
\* fixes it one way or the other (tie)
RECURSIVE Reverse(_)
Reverse(s) == IF s = <<>> THEN <<>> ELSE Append(Reverse(Tail(s)), Head(s))

ScanOrder(n) == LET up == [i \in 1..n |-> i]
                IN IF tie = "lo" THEN up ELSE Reverse(up)

\* ORDER BY td.transaction_date
DateAsc(i, j) == TsLess(txs[i].transaction_date, txs[j].transaction_date)

\* ORDER BY td.transaction_date, the DESC left out
DateDesc_Ascending(i, j) ==
    TsLess(txs[i].transaction_date, txs[j].transaction_date)

\* ORDER BY td.transaction_date DESC
DateDesc(i, j) == TsLess(txs[j].transaction_date, txs[i].transaction_date)

\* ORDER BY pi.last_name, pi.first_name
NameAsc(p, q) ==
    \/ Collate(people[p].last_name) < Collate(people[q].last_name)
    \/ /\ people[p].last_name = people[q].last_name
       /\ Collate(people[p].first_name) < Collate(people[q].first_name)

\* whether row x sorts strictly before row y under an ORDER BY clause
Before(clause, x, y) == CASE clause = "transaction_date" -> DateAsc(x, y)
                          [] clause = "transaction_date DESC" -> DateDesc(x, y)
                          [] clause = "last_name, first_name" -> NameAsc(x, y)

RECURSIVE InsertBy(_, _, _)
\* x placed into the ordered sequence s, after every element not after it
InsertBy(s, x, clause) ==
    IF s = <<>> THEN <<x>>
    ELSE IF Before(clause, x, Head(s)) THEN <<x>> \o s
         ELSE <<Head(s)>> \o InsertBy(Tail(s), x, clause)

RECURSIVE OrderBy(_, _)
\* ORDER BY: a stable sort of the visited rows
OrderBy(s, clause) ==
    IF s = <<>> THEN <<>>
    ELSE InsertBy(OrderBy(SubSeq(s, 1, Len(s) - 1), clause), s[Len(s)], clause)

\* JOIN PeopleInformation pi ON td.person_id = pi.person_id
\* WHERE pi.first_name = ? AND pi.last_name = ?
JoinsName(i, first_name, last_name) ==
    \E p \in 1..Len(people) : /\ txs[i].person_id = p
                              /\ people[p].first_name = first_name
                              /\ people[p].last_name = last_name

\* JOIN PeopleInformation pi ON td.person_id = pi.person_id
JoinsPerson(i) == \E p \in 1..Len(people) : txs[i].person_id = p

\* dict(row) of the five selected columns (description is carried along
\* unread and left out)
TxRecord(i) == [transaction_id |-> i,
                transaction_date |-> txs[i].transaction_date,
                amount |-> txs[i].amount,
                location |-> txs[i].location]

Records(s) == [k \in 1..Len(s) |-> TxRecord(s[k])]

RECURSIVE SumAmounts(_)
SumAmounts(s) == IF s = <<>> THEN 0 ELSE txs[Head(s)].amount + SumAmounts(Tail(s))

\* SUM(td.amount): NULL over no rows
SqlSum(s) == IF s = <<>> THEN Null ELSE Some(SumAmounts(s))

\* round(x, 2) of a non-negative amount, ties to even
Round2(x) == LET q == x \div 10
                 r == x % 10
             IN IF r < 5 THEN 10 * q
                ELSE IF r > 5 THEN 10 * (q + 1)
                ELSE IF q % 2 = 0 THEN 10 * q ELSE 10 * (q + 1)

(* ------------------------------------------------------ connection handling *)
\* sqlite3.connect(DB_NAME)
Connect(n) == n + 1

\* conn.close()
Close(n) == n - 1

Returned(v, executed) == [status |-> "ok", val |-> v, executed |-> executed]

\* the statement raises (no such table): the fault leaves the function
Fault == [status |-> "fault", val |-> <<>>, executed |-> TRUE]

(* ----------------------------------------------------------------- queries *)
\* the statement without its strftime('%m', ...) = ? condition
MonthRows_NoMonthFilter(first_name, last_name, month) ==
    LET hit(i) == JoinsName(i, first_name, last_name)
    IN Records(OrderBy(SelectSeq(ScanOrder(Len(txs)), hit), "transaction_date"))

MonthRows(first_name, last_name, month) ==
    LET month_str == Fmt02d(month)
        hit(i) == /\ JoinsName(i, first_name, last_name)
                  /\ StrftimeMonth(txs[i].transaction_date) = month_str
    IN Records(OrderBy(SelectSeq(ScanOrder(Len(txs)), hit), "transaction_date"))

get_transactions_by_month_and_name(first_name, last_name, month) ==
    /\ phase = "serve"
    /\ call = NoCall
    /\ call' = [op |-> "month", first_name |-> first_name,
                last_name |-> last_name, month |-> month]
    /\ IF tables
       THEN /\ ret' = Returned(MonthRows(first_name, last_name, month), TRUE)
            /\ open' = Close(Connect(open))
       ELSE /\ open < MaxOpen
            /\ ret' = Fault
            /\ open' = Connect(open)
    /\ UNCHANGED <<tables, people, txs, phase, tie, seed, work>>

DayRows(first_name, last_name, date_str) ==
    LET hit(i) == /\ JoinsName(i, first_name, last_name)
                  /\ SqlDate(txs[i].transaction_date) = date_str
    IN Records(OrderBy(SelectSeq(ScanOrder(Len(txs)), hit), "transaction_date"))

\* the early return of the validation branch without its conn.close()
get_transactions_by_day_and_name_NoClose(first_name, last_name, date_str) ==
    /\ phase = "serve"
    /\ call = NoCall
    /\ call' = [op |-> "day", first_name |-> first_name,
                last_name |-> last_name, date_str |-> date_str]
    /\ IF ~StrptimeOk(date_str)
       THEN /\ ret' = Returned(<<>>, FALSE)
            /\ open' = Connect(open)
       ELSE IF tables
       THEN /\ ret' = Returned(DayRows(first_name, last_name, date_str), TRUE)
            /\ open' = Close(Connect(open))
       ELSE /\ open < MaxOpen
            /\ ret' = Fault
            /\ open' = Connect(open)
    /\ UNCHANGED <<tables, people, txs, phase, tie, seed, work>>

get_transactions_by_day_and_name(first_name, last_name, date_str) ==
    /\ phase = "serve"
    /\ call = NoCall
    /\ call' = [op |-> "day", first_name |-> first_name,
                last_name |-> last_name, date_str |-> date_str]
    /\ IF ~StrptimeOk(date_str)
       THEN /\ ret' = Returned(<<>>, FALSE)
            /\ open' = Close(Connect(open))
       ELSE IF tables
       THEN /\ ret' = Returned(DayRows(first_name, last_name, date_str), TRUE)
            /\ open' = Close(Connect(open))
       ELSE /\ open < MaxOpen
            /\ ret' = Fault
            /\ open' = Connect(open)
    /\ UNCHANGED <<tables, people, txs, phase, tie, seed, work>>

\* the total handed back as fetched, None over no rows
TotalAmount_NoneWhenEmpty(first_name, last_name) ==
    LET hit(i) == JoinsName(i, first_name, last_name)
        result == SqlSum(SelectSeq(ScanOrder(Len(txs)), hit))
    IN IF result # Null THEN Some(Round2(result[1])) ELSE Null

TotalAmount(first_name, last_name) ==
    LET hit(i) == JoinsName(i, first_name, last_name)
        result == SqlSum(SelectSeq(ScanOrder(Len(txs)), hit))
    IN IF result # Null THEN Some(Round2(result[1])) ELSE Some(0)

get_total_transaction_amount_by_name(first_name, last_name) ==
    /\ phase = "serve"
    /\ call = NoCall
    /\ call' = [op |-> "total", first_name |-> first_name,
                last_name |-> last_name]
    /\ IF tables
       THEN /\ ret' = Returned(TotalAmount(first_name, last_name), TRUE)
            /\ open' = Close(Connect(open))
       ELSE /\ open < MaxOpen
            /\ ret' = Fault
            /\ open' = Connect(open)
    /\ UNCHANGED <<tables, people, txs, phase, tie, seed, work>>

\* WHERE location IS NOT NULL, the empty string let through
Qualifies_NullOnly(i) == txs[i].location # Null

\* WHERE location IS NOT NULL AND location != ''
Qualifies(i) == txs[i].location # Null /\ txs[i].location # Some("")

\* GROUP BY person_id, location
Groups == { <<txs[i].person_id, txs[i].location[1]>> :
              i \in {k \in 1..Len(txs) : Qualifies(k)} }

GroupRows(g) == { i \in 1..Len(txs) :
                    /\ Qualifies(i)
                    /\ txs[i].person_id = g[1]
                    /\ txs[i].location[1] = g[2] }

\* COUNT(*)
GroupCount(g) == Cardinality(GroupRows(g))

\* MAX(transaction_date)
GroupMaxDate(g) ==
    LET i == CHOOSE k \in GroupRows(g) :
               \A l \in GroupRows(g) :
                 ~TsLess(txs[k].transaction_date, txs[l].transaction_date)
    IN txs[i].transaction_date

\* BINARY collation of the locations in use
CollateLocation(s) == CASE s = "" -> 0 [] s = "London" -> 1 [] s = "Paris" -> 2

\* the order the engine leaves two groups in that tie on both sort keys
TiedBefore(g, h) == IF tie = "lo"
                    THEN CollateLocation(g[2]) < CollateLocation(h[2])
                    ELSE CollateLocation(h[2]) < CollateLocation(g[2])

\* ORDER BY COUNT(*) DESC alone, the recency key left out
RankedBefore_CountOnly(g, h) ==
    \/ GroupCount(g) > GroupCount(h)
    \/ GroupCount(g) = GroupCount(h) /\ TiedBefore(g, h)

\* ORDER BY COUNT(*) DESC, MAX(transaction_date) DESC
RankedBefore(g, h) ==
    \/ GroupCount(g) > GroupCount(h)
    \/ /\ GroupCount(g) = GroupCount(h)
       /\ TsLess(GroupMaxDate(h), GroupMaxDate(g))
    \/ /\ GroupCount(g) = GroupCount(h)
       /\ GroupMaxDate(g) = GroupMaxDate(h)
       /\ TiedBefore(g, h)

\* RANK() in place of ROW_NUMBER(): tied groups share a rank
RowNumber_AsRank(g) ==
    1 + Cardinality({ h \in Groups :
                        /\ h[1] = g[1]
                        /\ \/ GroupCount(h) > GroupCount(g)
                           \/ /\ GroupCount(h) = GroupCount(g)
                              /\ TsLess(GroupMaxDate(g), GroupMaxDate(h)) })

\* ROW_NUMBER() OVER (PARTITION BY person_id ORDER BY ...)
RowNumber(g) ==
    1 + Cardinality({ h \in Groups : h[1] = g[1] /\ RankedBefore(h, g) })

\* the CTE RankedLocations
RankedLocations ==
    { [person_id |-> g[1], location |-> g[2], rn |-> RowNumber(g)] : g \in Groups }

RECURSIVE SetToSeq(_)
SetToSeq(S) ==
    IF S = {} THEN <<>>
    ELSE LET x == CHOOSE a \in S :
                    \A b \in S : CollateLocation(a.location) <= CollateLocation(b.location)
         IN <<x>> \o SetToSeq(S \ {x})

\* LEFT JOIN RankedLocations rl ON pi.person_id = rl.person_id AND rl.rn = 1
PersonRows(p) ==
    LET rl == SetToSeq({ r \in RankedLocations : r.person_id = p /\ r.rn = 1 })
        row(loc) == [person_id |-> p,
                     first_name |-> people[p].first_name,
                     last_name |-> people[p].last_name,
                     email |-> people[p].email,
                     most_frequent_location |-> loc]
    IN IF rl = <<>> THEN <<row(Null)>>
       ELSE [k \in 1..Len(rl) |-> row(Some(rl[k].location))]

RECURSIVE Flatten(_)
Flatten(s) == IF s = <<>> THEN <<>> ELSE PersonRows(Head(s)) \o Flatten(Tail(s))

PeopleRows == Flatten(OrderBy(ScanOrder(Len(people)), "last_name, first_name"))

\* the listing preceded by an UPDATE that stores NULL for every empty location
list_all_people_Normalising ==
    /\ phase = "serve"
    /\ call = NoCall
    /\ call' = [op |-> "list"]
    /\ IF tables
       THEN /\ ret' = Returned(PeopleRows, TRUE)
            /\ open' = Close(Connect(open))
            /\ txs' = [i \in 1..Len(txs) |->
                        IF txs[i].location = Some("")
                        THEN [txs[i] EXCEPT !.location = Null] ELSE txs[i]]
       ELSE /\ open < MaxOpen
            /\ ret' = Fault
            /\ open' = Connect(open)
            /\ txs' = txs
    /\ UNCHANGED <<tables, people, phase, tie, seed, work>>

list_all_people ==
    /\ phase = "serve"
    /\ call = NoCall
    /\ call' = [op |-> "list"]
    /\ IF tables
       THEN /\ ret' = Returned(PeopleRows, TRUE)
            /\ open' = Close(Connect(open))
       ELSE /\ open < MaxOpen
            /\ ret' = Fault
            /\ open' = Connect(open)
    /\ UNCHANGED <<tables, people, txs, phase, tie, seed, work>>

LocationRecord(i) ==
    [transaction_id |-> i,
     first_name |-> people[txs[i].person_id].first_name,
     last_name |-> people[txs[i].person_id].last_name,
     transaction_date |-> txs[i].transaction_date,
     amount |-> txs[i].amount,
     location |-> txs[i].location]

\* WHERE COALESCE(td.location, '') = ?: a NULL location taken for the empty one
LocationRows_Coalesce(location) ==
    LET hit(i) == /\ JoinsPerson(i)
                  /\ \/ txs[i].location = Some(location)
                     \/ txs[i].location = Null /\ location = ""
        s == OrderBy(SelectSeq(ScanOrder(Len(txs)), hit), "transaction_date DESC")
    IN [k \in 1..Len(s) |-> LocationRecord(s[k])]

LocationRows(location) ==
    LET hit(i) == JoinsPerson(i) /\ txs[i].location = Some(location)
        s == OrderBy(SelectSeq(ScanOrder(Len(txs)), hit), "transaction_date DESC")
    IN [k \in 1..Len(s) |-> LocationRecord(s[k])]

get_transactions_by_location(location) ==
    /\ phase = "serve"
    /\ call = NoCall
    /\ call' = [op |-> "location", location |-> location]
    /\ IF tables
       THEN /\ ret' = Returned(LocationRows(location), TRUE)
            /\ open' = Close(Connect(open))
       ELSE /\ open < MaxOpen
            /\ ret' = Fault
            /\ open' = Connect(open)
    /\ UNCHANGED <<tables, people, txs, phase, tie, seed, work>>

(* ------------------------------------------------------------- the server *)
\* the serving process starts (mcp.run()) over the store as it is, linked
\* against one engine
StartServer ==
    /\ phase = "seed"
    /\ phase' = "serve"
    /\ tie' \in TieModes
    /\ UNCHANGED <<tables, people, txs, open, call, ret, seed, work>>

\* the caller takes the returned value (or the fault) and goes on
TakeResult ==
    /\ phase = "serve"
    /\ call # NoCall
    /\ call' = NoCall
    /\ ret' = NoRet
    /\ UNCHANGED <<tables, people, txs, phase, tie, open, seed, work>>

\* the serving process ends: its connections go with it
StopServer ==
    /\ phase = "serve"
    /\ phase' = "seed"
    /\ tie' = "lo"
    /\ open' = 0
    /\ call' = NoCall
    /\ ret' = NoRet
    /\ UNCHANGED <<tables, people, txs, seed, work>>

(* ------------------------------------------------- populate_dummy_data *)
MIN_TRANSACTIONS_PER_PERSON == 5
MAX_TRANSACTIONS_PER_PERSON == 25

\* the addresses fake.unique.email() may hand out
Emails == 1..MaxPeople

\* the values of a generated Transaction: none of them bears on the loop or
\* on a key of either table, one stands for all
SeedTx == Tx(Ts(2024, 3, 5, 0), 20000, Some("London"))

Running == {"loop", "txs"}

\* setup_database, run while no populate_dummy_data is under way
seed_setup_database ==
    /\ seed.pc \notin Running
    /\ setup_database

\* populate_dummy_data(num_people) up to its while loop: the count query
\* raises when the tables are missing, a store that holds a Person is left
\* alone, otherwise the loop starts on what is committed
populate_dummy_data(num_people) ==
    /\ phase = "seed"
    /\ seed.pc \notin Running
    /\ IF ~tables
       THEN seed' = [NoSeed EXCEPT !.pc = "fault", !.num_people = num_people]
            /\ work' = NoWork
       ELSE IF Len(people) > 0
       THEN seed' = [NoSeed EXCEPT !.pc = "skipped", !.num_people = num_people]
            /\ work' = NoWork
       ELSE seed' = [NoSeed EXCEPT !.pc = "loop", !.num_people = num_people]
            /\ work' = [people |-> people, txs |-> txs]
    /\ UNCHANGED <<tables, people, txs, phase, tie, open, call, ret>>

\* conn.rollback() undoes the tables alone, the Transactions stay
RolledBack_PeopleOnly(w) == [people |-> people, txs |-> w.txs]

\* conn.rollback(): the connection is back on what is committed
RolledBack(w) == [people |-> people, txs |-> txs]

\* one pass of the while loop up to the Person's INSERT: a duplicate email
\* raises IntegrityError and the handler rolls back; otherwise the row is
\* in, person_id is its rowid, people_added is counted up and the number
\* of Transactions is drawn
populate_insert_person(name, email, num_transactions) ==
    /\ seed.pc = "loop"
    /\ seed.people_added < seed.num_people
    /\ IF \E p \in 1..Len(work.people) : work.people[p].email = email
       THEN /\ work' = RolledBack(work)
            /\ seed' = seed
       ELSE /\ work' = [work EXCEPT !.people =
                          Append(@, [first_name |-> name[1],
                                     last_name |-> name[2],
                                     email |-> email])]
            /\ seed' = [seed EXCEPT !.pc = "txs",
                                    !.person_id = Len(work.people) + 1,
                                    !.people_added = @ + 1,
                                    !.todo = num_transactions]
    /\ UNCHANGED <<tables, people, txs, phase, tie, open, call, ret>>

\* one pass of the for loop: the Transaction's INSERT; after the last one
\* control is back at the while loop
populate_insert_transaction ==
    /\ seed.pc = "txs"
    /\ seed.todo > 0
    /\ work' = [work EXCEPT !.txs =
                  Append(@, [person_id |-> seed.person_id,
                             transaction_date |-> SeedTx.transaction_date,
                             amount |-> SeedTx.amount,
                             location |-> SeedTx.location])]
    /\ seed' = [seed EXCEPT !.todo = @ - 1,
                            !.pc = IF seed.todo = 1 THEN "loop" ELSE "txs"]
    /\ UNCHANGED <<tables, people, txs, phase, tie, open, call, ret>>

\* except Exception: any other error raised inside the try block, before
\* the Person is in or between two of its Transactions; the handler rolls
\* back and the while loop goes on
populate_other_error ==
    /\ \/ seed.pc = "loop" /\ seed.people_added < seed.num_people
       \/ seed.pc = "txs"
    /\ work' = RolledBack(work)
    /\ seed' = [seed EXCEPT !.pc = "loop", !.todo = 0]
    /\ UNCHANGED <<tables, people, txs, phase, tie, open, call, ret>>

\* the while loop is over: conn.commit(), conn.close()
populate_commit ==
    /\ seed.pc = "loop"
    /\ seed.people_added >= seed.num_people
    /\ people' = work.people
    /\ txs' = work.txs
    /\ seed' = [seed EXCEPT !.pc = "done"]
    /\ work' = NoWork
    /\ UNCHANGED <<tables, phase, tie, open, call, ret>>

SeedNext ==
    \/ seed_setup_database
    \/ \E num_people \in 1..MaxPeople : populate_dummy_data(num_people)
    \/ \E name \in PersonNames, email \in Emails,
          num_transactions \in
            MIN_TRANSACTIONS_PER_PERSON..MAX_TRANSACTIONS_PER_PERSON :
         populate_insert_person(name, email, num_transactions)
    \/ populate_insert_transaction
    \/ populate_other_error
    \/ populate_commit

SpecSeed == Init /\ [][SeedNext]_vars

Next == \/ setup_database
        \/ \E name \in PersonNames : InsertPerson(name)
        \/ \E pid \in 1..MaxPeople, v \in TxValues : InsertTransaction(pid, v)
        \/ StartServer
        \/ StopServer
        \/ TakeResult
        \/ \E name \in PersonNames, month \in Months :
             get_transactions_by_month_and_name(name[1], name[2], month)
        \/ \E name \in PersonNames, date_str \in DateStrings :
             get_transactions_by_day_and_name(name[1], name[2], date_str)
        \/ \E name \in PersonNames :
             get_total_transaction_amount_by_name(name[1], name[2])
        \/ list_all_people
        \/ \E location \in LocationArgs : get_transactions_by_location(location)

Spec == Init /\ [][Next]_vars

(* ------------------------------------------------------------------ claims *)
\* the persons carrying a name, and the transactions a person owns
Named(first_name, last_name) ==
    { p \in 1..Len(people) : /\ people[p].first_name = first_name
                             /\ people[p].last_name = last_name }

Owned(p) == { i \in 1..Len(txs) : txs[i].person_id = p }

RECURSIVE SumOver(_)
SumOver(S) == IF S = {} THEN 0
              ELSE LET i == CHOOSE k \in S : TRUE
                   IN txs[i].amount + SumOver(S \ {i})

HasLocation(i) == txs[i].location # Null /\ txs[i].location # Some("")

LocationsOf(p) == { txs[i].location[1] : i \in { k \in Owned(p) : HasLocation(k) } }

CountAt(p, l) == Cardinality({ i \in Owned(p) : txs[i].location = Some(l) })

LatestAt(p, l) ==
    LET S == { i \in Owned(p) : txs[i].location = Some(l) }
        i == CHOOSE k \in S :
               \A j \in S : ~TsLess(txs[k].transaction_date, txs[j].transaction_date)
    IN txs[i].transaction_date

RecordsOf(p) == { k \in 1..Len(ret.val) : ret.val[k].person_id = p }

ListReturned == call.op = "list" /\ ret.status = "ok"

\* C1: when no Person has the name asked for, or every Person of that name
\* owns no Transaction, the total returned is exactly 0.0: a value, not None,
\* and not a fault.
C1_TotalOfNothingIsZero ==
    (/\ tables
     /\ call.op = "total"
     /\ \A p \in Named(call.first_name, call.last_name) : Owned(p) = {})
    => ret = Returned(Some(0), TRUE)

C1_Witness ==
    /\ call.op = "total"
    /\ Named(call.first_name, call.last_name) # {}
    /\ \A p \in Named(call.first_name, call.last_name) : Owned(p) = {}
    /\ \E q \in 1..Len(people) : Owned(q) # {}
    /\ ret.val = Some(0)

\* C2: for every Person P, the total returned for P's name is the rounded sum
\* of the amounts of exactly the Transactions P owns, also when another
\* Person carries the same name.
C2_TotalIsOwnSum ==
    (call.op = "total" /\ ret.status = "ok")
    => \A p \in Named(call.first_name, call.last_name) :
         ret.val = Some(Round2(SumOver(Owned(p))))

\* C3: for every Person with a Transaction that has a location, the location
\* list_all_people reports has the largest count among that Person's
\* locations, and no location with the same count has a later latest
\* transaction_date.
C3_MostFrequentLatest ==
    ListReturned
    => \A p \in 1..Len(people) :
         LocationsOf(p) # {}
         => /\ RecordsOf(p) # {}
            /\ \A k \in RecordsOf(p) :
                 /\ ret.val[k].most_frequent_location # Null
                 /\ LET w == ret.val[k].most_frequent_location[1]
                    IN /\ w \in LocationsOf(p)
                       /\ \A l \in LocationsOf(p) :
                            /\ CountAt(p, l) <= CountAt(p, w)
                            /\ CountAt(p, l) = CountAt(p, w)
                               => ~TsLess(LatestAt(p, w), LatestAt(p, l))

C3_Witness ==
    /\ ListReturned
    /\ \E p \in 1..Len(people) :
         /\ CountAt(p, "London") = 1
         /\ CountAt(p, "Paris") = 1
         /\ TsLess(LatestAt(p, "London"), LatestAt(p, "Paris"))
         /\ \E k \in RecordsOf(p) : ret.val[k].most_frequent_location = Some("Paris")

\* C4: the result of list_all_people holds exactly one record for each
\* Person row, also when locations of the Person tie on count and on latest
\* transaction_date.
C4_OneRecordPerPerson ==
    ListReturned
    => /\ Len(ret.val) = Len(people)
       /\ \A p \in 1..Len(people) : Cardinality(RecordsOf(p)) = 1

C4_Witness ==
    /\ ListReturned
    /\ Len(people) = 2
    /\ \E p \in 1..Len(people) :
         /\ CountAt(p, "London") = 1
         /\ CountAt(p, "Paris") = 1
         /\ LatestAt(p, "London") = LatestAt(p, "Paris")
         /\ Cardinality(RecordsOf(p)) = 1

\* C5: a Person whose Transactions all lack a location (NULL or the empty
\* string), or who owns none, still has a record and its
\* most_frequent_location is None; the empty string is never reported,
\* and a Person with a located Transaction never gets None.
C5_NoLocationIsNone ==
    ListReturned
    => \A p \in 1..Len(people) :
         /\ RecordsOf(p) # {}
         /\ \A k \in RecordsOf(p) :
              /\ ret.val[k].most_frequent_location # Some("")
              /\ (LocationsOf(p) = {}) <=> (ret.val[k].most_frequent_location = Null)

C5_Witness ==
    /\ ListReturned
    /\ \E p \in 1..Len(people) :
         /\ \E i \in Owned(p) : txs[i].location = Null
         /\ \E i \in Owned(p) : txs[i].location = Some("")
         /\ LocationsOf(p) = {}
         /\ \E k \in RecordsOf(p) : ret.val[k].most_frequent_location = Null

Returns(i) == \E k \in 1..Len(ret.val) : ret.val[k].transaction_id = i

\* C6: every Transaction T of a Person P is among the records returned for
\* P's name and T's month, and among those returned for P's name and T's
\* date, whatever T's year and time of day.
C6_OwnTransactionsAppear ==
    /\ call.op = "month"
       => \A p \in Named(call.first_name, call.last_name) :
            \A i \in Owned(p) :
              txs[i].transaction_date.m = call.month
              => ret.status = "ok" /\ Returns(i)
    /\ call.op = "day"
       => \A p \in Named(call.first_name, call.last_name) :
            \A i \in Owned(p) :
              SqlDate(txs[i].transaction_date) = call.date_str
              => ret.status = "ok" /\ Returns(i)

C6_Witness ==
    /\ call.op = "month"
    /\ ret.status = "ok"
    /\ \E p \in Named(call.first_name, call.last_name) :
         \E i, j \in Owned(p) :
           /\ txs[i].transaction_date.y # txs[j].transaction_date.y
           /\ txs[i].transaction_date.m = call.month
           /\ txs[j].transaction_date.m = call.month
           /\ Returns(i) /\ Returns(j)

Ascending(s) ==
    \A k \in 1..(Len(s) - 1) :
      ~TsLess(s[k + 1].transaction_date, s[k].transaction_date)

Descending(s) ==
    \A k \in 1..(Len(s) - 1) :
      ~TsLess(s[k].transaction_date, s[k + 1].transaction_date)

\* C7: the records returned by month and by day are in non-decreasing order
\* of transaction_date, those returned by location in non-increasing order.
C7_ResultsOrdered ==
    /\ (call.op \in {"month", "day"} /\ ret.status = "ok") => Ascending(ret.val)
    /\ (call.op = "location" /\ ret.status = "ok") => Descending(ret.val)

C7_Witness ==
    /\ call.op = "location"
    /\ ret.status = "ok"
    /\ Len(ret.val) = 3
    /\ TsLess(ret.val[3].transaction_date, ret.val[1].transaction_date)
    /\ ret.val[1].transaction_id > ret.val[2].transaction_id

\* C8: a call by day whose date argument strptime rejects returns the empty
\* sequence without a fault, runs no statement, and leaves as many
\* connections open as there were before it.
C8_BadDateReturnsEmpty ==
    [][(call = NoCall /\ call'.op = "day" /\ ~StrptimeOk(call'.date_str))
       => (ret' = Returned(<<>>, FALSE) /\ open' = open)]_vars

C8_Witness ==
    /\ call.op = "day"
    /\ call.date_str = <<"2", "0", "2", "4", "-", "1", "3", "-", "4", "0">>
    /\ Named(call.first_name, call.last_name) # {}
    /\ \E p \in Named(call.first_name, call.last_name) : Owned(p) # {}
    /\ ret = Returned(<<>>, FALSE)
    /\ open = 0

\* C9: every query operation closes the connection it opened on every way
\* out, a fault included: no connection is open between operations.
C9_ConnectionsReleased == open = 0

C11_LocationExactlyMatching ==
    (call.op = "location" /\ ret.status = "ok")
    => /\ \A i \in 1..Len(txs) :
            (/\ txs[i].location = Some(call.location)
             /\ txs[i].person_id \in 1..Len(people))
            => Cardinality({ k \in 1..Len(ret.val) :
                               ret.val[k].transaction_id = i }) = 1
       /\ \A k \in 1..Len(ret.val) :
            LET i == ret.val[k].transaction_id
            IN /\ i \in 1..Len(txs)
               /\ txs[i].location = Some(call.location)
               /\ txs[i].person_id \in 1..Len(people)
               /\ ret.val[k].first_name = people[txs[i].person_id].first_name
               /\ ret.val[k].last_name = people[txs[i].person_id].last_name

C11_Witness ==
    /\ call.op = "location"
    /\ ret.status = "ok"
    /\ Len(ret.val) = 1
    /\ \E i, j, l \in 1..Len(txs) :
         /\ txs[i].location = Some(call.location)
         /\ txs[i].person_id \in 1..Len(people)
         /\ Returns(i)
         /\ txs[j].location = Some(call.location)
         /\ txs[j].person_id \notin 1..Len(people)
         /\ txs[l].location # Some(call.location)
         /\ txs[l].person_id \in 1..Len(people)

\* C12: over existing tables, a call by month with an integer month outside
\* 1..12 returns the empty sequence and raises no fault, and a call with a
\* month in 1..12 returns only Transactions of that month, of any year.
C12_MonthOutOfRangeIsEmpty ==
    (tables /\ call.op = "month")
    => /\ ret.status = "ok"
       /\ call.month \notin 1..12 => ret.val = <<>>
       /\ call.month \in 1..12
          => \A k \in 1..Len(ret.val) :
               /\ ret.val[k].transaction_date.m = call.month
               /\ txs[ret.val[k].transaction_id].transaction_date.m = call.month

C12_Witness ==
    /\ call.op = "month"
    /\ call.month = 13
    /\ \E p \in Named(call.first_name, call.last_name) : Cardinality(Owned(p)) >= 2
    /\ ret = Returned(<<>>, TRUE)

(* ------------------------------------------------------------------- C13 *)
\* C13: under SpecSeed, whatever setup_database and populate_dummy_data runs
\* have happened, rollbacks included, every committed Transaction row has a
\* person_id that is the id of a committed Person row.
C13_NoOrphanCommitted ==
    \A i \in 1..Len(txs) : txs[i].person_id \in 1..Len(people)

\* a run that counted a Person, rolled it back with its Transactions, and
\* committed another Person with Transactions
C13_Witness ==
    /\ seed.pc = "done"
    /\ seed.people_added > Len(people)
    /\ Len(people) >= 1
    /\ Len(txs) >= MIN_TRANSACTIONS_PER_PERSON

(* ------------------------------------------------------------------- C14 *)
TxCountOf(p) == Cardinality({ i \in 1..Len(txs) : txs[i].person_id = p })

\* C14: a populate_dummy_data(num_people) run that started on a store
\* without Persons and has ended leaves exactly num_people Persons, each
\* with MIN_TRANSACTIONS_PER_PERSON..MAX_TRANSACTIONS_PER_PERSON
\* Transactions, also when inserts failed and were rolled back; and no step
\* of a run on a store holding a Person changes either table.
C14_PopulatesNumPeople ==
    /\ [](seed.pc = "done"
          => /\ Len(people) = seed.num_people
             /\ \A p \in 1..Len(people) :
                  TxCountOf(p) \in MIN_TRANSACTIONS_PER_PERSON
                                   ..MAX_TRANSACTIONS_PER_PERSON)
    /\ [][Len(people) > 0 => (people' = people /\ txs' = txs)]_vars
====
